---- MODULE Spec2Model ----
(***************************************************************************)
(* Model of misc/python/materialize/buildkite_insights/buildkite_api/      *)
(* generic_api.py: get (one authenticated GET, rate-limit detection) and   *)
(* get_multiple (the pagination loop).                                     *)
(*                                                                         *)
(* JSON values are tagged records: [t |-> "list", v |-> <<entries>>] and   *)
(* [t |-> "dict", v |-> <record of fields>].  Python's None for an         *)
(* optional value is the empty set, and a present value x is {x}.          *)
(* Strings the code converts (the "page" parameter) are sequences of       *)
(* characters.                                                             *)
(***************************************************************************)
EXTENDS Integers, Sequences, FiniteSets, TLC

\* ---------------------------------------------------------------- bounds
\* Page numbers 1..MaxPages of the remote resource carry chosen bodies.
MaxPages == 2
\* A list page holds 1..MaxEntries entries.
MaxEntries == 2
\* max_fetches is None or an integer in -1..MaxBudget.
MaxBudget == 2
\* Direct calls of get recorded by GetSpec.
MaxGetCalls == 2

\* The loop of get_multiple is unbounded on a backend without an empty page;
\* the model follows it for this many fetches.
MaxFetchCount == (IF MaxPages > MaxBudget THEN MaxPages ELSE MaxBudget) + 2

\* ------------------------------------------------------------- constants
BUILDKITE_API_URL == "https://api.buildkite.com/v2"

STATUS_CODE_RATE_LIMIT_EXCEEDED == 429

\* Status codes the transport may answer with.
StatusCodes == {200, 404, 500, STATUS_CODE_RATE_LIMIT_EXCEEDED}

\* ------------------------------------------------------------ JSON values
JList(s) == [t |-> "list", v |-> s]
JDict(r) == [t |-> "dict", v |-> r]

EmptyDict == [k \in {} |-> <<>>]

\* An entry of a list page; created_at is present or not.
Entry(id, created) ==
    IF created THEN JDict([id |-> id, created_at |-> "2024-01-01T00:00:00Z"])
               ELSE JDict([id |-> id])

\* `if result is None` in place of `if not result`: every decoded value goes on.
Truthy_NotNone(j) == TRUE

\* Python truthiness of a decoded JSON value (`not result` is its negation).
Truthy(j) ==
    CASE j.t = "list" -> Len(j.v) > 0
      [] j.t = "dict" -> DOMAIN j.v # {}

\* result.get("error") in place of result.get("message").
HasMessage_ErrorKey(j) ==
    /\ j.t = "dict"
    /\ "error" \in DOMAIN j.v
    /\ j.v["error"] # ""

\* isinstance(result, dict) and result.get("message")
HasMessage(j) ==
    /\ j.t = "dict"
    /\ "message" \in DOMAIN j.v
    /\ j.v["message"] # ""

\* ----------------------------------------------------- str() and int()
Digits == <<"0", "1", "2", "3", "4", "5", "6", "7", "8", "9">>

RECURSIVE NatToStr(_)
NatToStr(n) ==
    IF n < 10 THEN <<Digits[n + 1]>>
              ELSE NatToStr(n \div 10) \o <<Digits[(n % 10) + 1]>>

\* str(i) for an int
IntToStr(i) == IF i < 0 THEN <<"-">> \o NatToStr(-i) ELSE NatToStr(i)

DigitValue(c) == CHOOSE d \in 0..9 : Digits[d + 1] = c

RECURSIVE StrToNat(_)
StrToNat(s) ==
    IF Len(s) = 0 THEN 0
    ELSE 10 * StrToNat(SubSeq(s, 1, Len(s) - 1)) + DigitValue(s[Len(s)])

\* int(s) for a decimal string
StrToInt(s) == IF s[1] = "-" THEN -StrToNat(Tail(s)) ELSE StrToNat(s)

\* A new dict holding the one key, in place of an update of d.
DictSet_Replace(d, k, v) == [x \in {k} |-> v]

\* ------------------------------------------------------------------ dicts
\* d[k] = v on a Python dict
DictSet(d, k, v) == [x \in DOMAIN d \cup {k} |-> IF x = k THEN v ELSE d[x]]

\* ------------------------------------------------------------ environment
\* os.getenv(name): None ({}) or the variable's value ({v}).
EnvValues(v) == {{}, {""}, {v}}

Environs ==
    [BUILDKITE_CI_API_KEY : EnvValues("ci-api-key"),
     BUILDKITE_TOKEN : EnvValues("token")]

\* The environment get_multiple is followed in: BUILDKITE_TOKEN alone is set.
\* (GetSpec follows get in every environment.)
CallEnvirons ==
    {e \in Environs : e.BUILDKITE_CI_API_KEY = {} /\ e.BUILDKITE_TOKEN = {"token"}}

\* `a if a is not None else b`: an empty first variable hides the second.
PyOr_NotNone(a, b) == IF a # {} THEN a ELSE b

\* Python's `a or b` on optional strings: a when a is truthy, else b.
PyOr(a, b) == IF a # {} /\ a # {""} THEN a ELSE b

\* ----------------------------------------------------------- the backend
\* Bodies the remote API may answer page p with: a non-empty list of entries
\* (all with created_at, or one of them without it), the empty list, the
\* empty object, an error object, and an object whose message is empty.
CreatedShapes ==
    { c \in UNION {[1..k -> BOOLEAN] : k \in 1..MaxEntries} :
        Cardinality({i \in DOMAIN c : ~c[i]}) <= 1 }

ListBodies(p) ==
    { JList([i \in DOMAIN c |-> Entry(10 * p + i, c[i])]) : c \in CreatedShapes }

OtherBodies ==
    { JList(<<>>), JDict(EmptyDict),
      JDict([message |-> "oops"]), JDict([message |-> ""]) }

Bodies(p) == ListBodies(p) \cup OtherBodies

\* A backend: the bodies of pages 1..MaxPages, and whether the resource goes
\* on for ever (page numbers past MaxPages repeat the pages) or ends there.
Backends ==
    { [pages |-> pg, endless |-> e] :
        pg \in { f \in [1..MaxPages -> UNION {Bodies(p) : p \in 1..MaxPages}] :
                   \A p \in 1..MaxPages : f[p] \in Bodies(p) },
        e \in BOOLEAN }

VARIABLES
    backend,      \* the remote resource (never changed by the program)
    environ,      \* the process environment read by os.getenv
    pc,           \* position of the caller / of get_multiple
    args,         \* the arguments get_multiple was called with
    params,       \* the params dict (one object, shared with the caller)
    results,      \* get_multiple: results
    fetch_count,  \* get_multiple: fetch_count
    outcome,      \* what the call handed to its caller
    requests,     \* the requests the running call handed to requests.get
    get_log,      \* direct calls of get: what each took and gave
    kept          \* what the caller kept of a rate-limited call it resumes

vars == <<backend, environ, pc, args, params, results, fetch_count, outcome,
          requests, get_log, kept>>

\* The page number a request asks for (the API's default is page 1).
PageOf(p) == IF "page" \in DOMAIN p THEN StrToInt(p["page"]) ELSE 1

\* The JSON body the backend b holds for page number n.
BodyOf(b, n) ==
    IF n \in 1..MaxPages THEN b.pages[n]
    ELSE IF b.endless /\ n > MaxPages THEN b.pages[((n - 1) % MaxPages) + 1]
    ELSE JList(<<>>)

\* requests.get(headers=headers, url=url, params=params): the response r.
requests_get(headers, url, p, status) ==
    [status_code |-> status, json |-> BodyOf(backend, PageOf(p))]

\* ------------------------------------------------------------------- get
\* The token get resolves from the environment.
Token(env) == PyOr(env.BUILDKITE_CI_API_KEY, env.BUILDKITE_TOKEN)

Headers(env) ==
    LET token == Token(env) IN
    IF token # {} /\ token # {""}
    THEN [Authorization |-> "Bearer " \o (CHOOSE x \in token : TRUE)]
    ELSE EmptyDict

\* get raising on every status from 400 on (as r.raise_for_status() would),
\* not on the rate-limit status alone.
get_RaisesOnErrorStatus(request_path, p, status) ==
    LET headers == Headers(environ)
        url == BUILDKITE_API_URL \o "/" \o request_path
        r == requests_get(headers, url, p, status)
        request == [url |-> url, headers |-> headers, params |-> p]
    IN  IF r.status_code >= 400
        THEN [raised |-> TRUE, partial_result |-> <<>>,
              request |-> request, params |-> p]
        ELSE [raised |-> FALSE, value |-> r.json,
              request |-> request, params |-> p]

\* get writing a default page into the caller's dict before the request.
get_SetsDefaultPage(request_path, p, status) ==
    LET headers == Headers(environ)
        url == BUILDKITE_API_URL \o "/" \o request_path
        q == IF "page" \in DOMAIN p THEN p ELSE DictSet(p, "page", <<"1">>)
        r == requests_get(headers, url, q, status)
        request == [url |-> url, headers |-> headers, params |-> q]
    IN  IF r.status_code = STATUS_CODE_RATE_LIMIT_EXCEEDED
        THEN [raised |-> TRUE, partial_result |-> <<>>,
              request |-> request, params |-> q]
        ELSE [raised |-> FALSE, value |-> r.json,
              request |-> request, params |-> q]

\* get(request_path, params), with the status the transport answers with.
\* Gives what get raises or returns, the request it sent, and the params
\* dict as the call leaves it.
get(request_path, p, status) ==
    LET headers == Headers(environ)
        url == BUILDKITE_API_URL \o "/" \o request_path
        r == requests_get(headers, url, p, status)
        request == [url |-> url, headers |-> headers, params |-> p]
    IN  IF r.status_code = STATUS_CODE_RATE_LIMIT_EXCEEDED
        THEN [raised |-> TRUE, partial_result |-> <<>>,
              request |-> request, params |-> p]
        ELSE [raised |-> FALSE, value |-> r.json,
              request |-> request, params |-> p]

\* ---------------------------------------------------------- get_multiple
\* What a call hands to its caller.
NoOutcome == [type |-> "none"]
Returned(v) == [type |-> "return", value |-> v]
RateLimitExceeded(partial_result) ==
    [type |-> "RateLimitExceeded", partial_result |-> partial_result]
\* The server error given the accumulated entries, like RateLimitExceeded.
RuntimeError_WithPartial(message) ==
    [type |-> "RuntimeError",
     message |-> "Something went wrong! (" \o message \o ")",
     partial_result |-> results]

RuntimeError(message) ==
    [type |-> "RuntimeError",
     message |-> "Something went wrong! (" \o message \o ")"]
\* An uncaught KeyError or IndexError.
LookupError(type, arg) == [type |-> type, arg |-> arg]

\* No except clause: the RateLimitExceeded([]) of get reaches the caller.
ReRaise_Bare(res) == [type |-> "RateLimitExceeded", partial_result |-> <<>>]

\* except RateLimitExceeded: return results
ReRaise_Swallow(res) == [type |-> "return", value |-> res]

\* except RateLimitExceeded: raise RateLimitExceeded(partial_result=results)
ReRaise(res) == RateLimitExceeded(res)

\* The page written back without the increment.
NextPage_Same(p) == DictSet(p, "page", IntToStr(StrToInt(p["page"])))

\* The page advanced by two.
NextPage_Skip(p) == DictSet(p, "page", IntToStr(StrToInt(p["page"]) + 2))

\* params["page"] = str(int(params["page"]) + 1)
NextPage(p) == DictSet(p, "page", IntToStr(StrToInt(p["page"]) + 1))

\* result[-1]["created_at"]: the exception the subscripts raise, or "" when
\* they raise none. A dict has no key -1 and an empty list no last item; the
\* last entry of a list may have no "created_at".
SubscriptError(result) ==
    IF result.t = "dict" THEN "KeyError"
    ELSE IF Len(result.v) = 0 THEN "IndexError"
    ELSE IF "created_at" \notin DOMAIN result.v[Len(result.v)].v THEN "KeyError"
    ELSE ""

\* What the exception of result[-1]["created_at"] carries.
SubscriptErrorArg(result) ==
    IF result.t = "dict" THEN "-1"
    ELSE IF Len(result.v) = 0 THEN "list index out of range"
    ELSE "created_at"

\* results = result + results: the page put in front of the accumulator.
Extend_Prepend(res, result) == result.v \o res

\* results.extend(result)
Extend(res, result) == res \o result.v

\* fetch_count > max_fetches in place of >=.
BudgetReached_Greater(max_fetches, fc) == \E m \in max_fetches : fc > m

\* fetch_count == max_fetches in place of >=.
BudgetReached_Equal(max_fetches, fc) == \E m \in max_fetches : fc = m

\* max_fetches is not None and fetch_count >= max_fetches
BudgetReached(max_fetches, fc) == \E m \in max_fetches : fc >= m

\* --------------------------------------------------------------- inputs
RequestPaths == {"organizations/materialize/builds"}

\* The dicts a caller passes as params.
ParamsIn ==
    { EmptyDict,
      [branch |-> <<"m", "a", "i", "n">>, page |-> <<"7">>] }

\* max_fetches: None or an int.
MaxFetchesValues == {{}} \cup {{m} : m \in -1..MaxBudget}

\* first_page: the first pages, and one whose successor has two digits.
FirstPages == {1, 2, 9}

NoArgs ==
    [request_path |-> "", params |-> EmptyDict, max_fetches |-> {},
     first_page |-> 1]

\* A module-level accumulator (or a mutable default argument) in place of
\* the local `results = []`.
FreshResults_Shared == results

\* results = []
FreshResults == <<>>

\* ---------------------------------------------------------------- actions
Init ==
    /\ backend \in Backends
    /\ environ \in CallEnvirons
    /\ params \in ParamsIn
    /\ pc = "idle"
    /\ args = NoArgs
    /\ results = <<>>
    /\ fetch_count = 0
    /\ outcome = NoOutcome
    /\ requests = <<>>
    /\ get_log = <<>>
    /\ kept = {}

\* get_multiple(request_path, params, max_fetches, first_page) up to the
\* loop: results = [], params["page"] = str(first_page), fetch_count = 0.
Call ==
    /\ pc = "idle"
    /\ \E rp \in RequestPaths, mf \in MaxFetchesValues, fp \in FirstPages :
         /\ args' = [request_path |-> rp, params |-> params,
                     max_fetches |-> mf, first_page |-> fp]
         /\ params' = DictSet(params, "page", IntToStr(fp))
    /\ results' = FreshResults
    /\ fetch_count' = 0
    /\ pc' = "loop"
    /\ UNCHANGED <<backend, environ, outcome, requests, get_log, kept>>

\* except RateLimitExceeded: continue (the same page is asked for again).
RaiseRateLimitExceeded_Retry(g) ==
    /\ pc' = "loop"
    /\ outcome' = NoOutcome
    /\ params' = g.params
    /\ UNCHANGED <<results, fetch_count>>

\* The page incremented before the fetch: a rate-limited fetch leaves
\* params["page"] one past the page it asked for.
RaiseRateLimitExceeded_PageAdvanced(g) ==
    /\ pc' = "rate_limit_exceeded"
    /\ outcome' = ReRaise(results)
    /\ params' = NextPage(g.params)
    /\ UNCHANGED <<results, fetch_count>>

\* The pass ends in `raise RateLimitExceeded(partial_result=results)`.
RaiseRateLimitExceeded(g) ==
    /\ pc' = "rate_limit_exceeded"
    /\ outcome' = ReRaise(results)
    /\ params' = g.params
    /\ UNCHANGED <<results, fetch_count>>

\* The pass after `fetch_count += 1`, with result = g.value.
Process(g) ==
    LET result == g.value IN
    /\ fetch_count' = fetch_count + 1
    /\ IF ~Truthy(result)
       THEN /\ pc' = "no_further_results"
            /\ outcome' = Returned(results)
            /\ params' = g.params
            /\ UNCHANGED results
       ELSE IF HasMessage(result)
       THEN /\ pc' = "server_error"
            /\ outcome' = RuntimeError(result.v["message"])
            /\ params' = g.params
            /\ UNCHANGED results
       ELSE /\ params' = NextPage(g.params)
            /\ IF SubscriptError(result) # ""
               THEN /\ pc' = "lookup_error"
                    /\ outcome' = LookupError(SubscriptError(result),
                                              SubscriptErrorArg(result))
                    /\ UNCHANGED results
               ELSE /\ results' = Extend(results, result)
                    /\ IF BudgetReached(args.max_fetches, fetch_count + 1)
                       THEN /\ pc' = "max_fetches_reached"
                            /\ outcome' = Returned(Extend(results, result))
                       ELSE /\ pc' = "loop"
                            /\ outcome' = NoOutcome

\* One pass of the `while True` loop of get_multiple.
Iterate ==
    /\ pc = "loop"
    /\ fetch_count < MaxFetchCount
    /\ \E status \in StatusCodes :
         LET g == get(args.request_path, params, status) IN
         /\ requests' = Append(requests, g.request)
         /\ IF g.raised THEN RaiseRateLimitExceeded(g) ELSE Process(g)
    /\ UNCHANGED <<backend, environ, args, get_log, kept>>

Next == Call \/ Iterate

Spec == Init /\ [][Next]_vars

\* Termination is followed on backends whose list pages hold one entry and
\* for a caller passing an empty dict: the loop's exits do not depend on more.
InitFair ==
    /\ Init
    /\ params = EmptyDict
    /\ \A p \in 1..MaxPages :
          backend.pages[p].t = "list" => Len(backend.pages[p].v) <= 1

\* The loop is sequential code: while a pass can be taken, it is taken.
FairSpec == InitFair /\ [][Next]_vars /\ WF_vars(Next)

\* ------------------------------------------------------ get, called alone
\* Backends for a direct call of get: page 1 varies, the rest is empty.
GetBackends ==
    { b \in Backends :
        ~b.endless /\ \A p \in 2..MaxPages : b.pages[p] = JList(<<>>) }

\* The dicts a caller passes to get.
ParamsGet ==
    { EmptyDict,
      [page |-> <<"1">>],
      [branch |-> <<"m", "a", "i", "n">>, page |-> <<"2">>] }

InitGet ==
    /\ backend \in GetBackends
    /\ environ \in Environs
    /\ params \in ParamsGet
    /\ pc = "idle"
    /\ args = NoArgs
    /\ results = <<>>
    /\ fetch_count = 0
    /\ outcome = NoOutcome
    /\ requests = <<>>
    /\ get_log = <<>>
    /\ kept = {}

\* A caller calls get(request_path, params) with its dict.
GetCall ==
    /\ pc = "idle"
    /\ Len(get_log) < MaxGetCalls
    /\ \E rp \in RequestPaths, status \in StatusCodes :
         LET g == get(rp, params, status) IN
         /\ get_log' = Append(get_log,
                [request_path |-> rp, params |-> params, status |-> status,
                 params_after |-> g.params, raised |-> g.raised,
                 value |-> IF g.raised THEN g.partial_result ELSE g.value])
         /\ params' = g.params
         /\ requests' = Append(requests, g.request)
         /\ outcome' = IF g.raised THEN RateLimitExceeded(g.partial_result)
                                   ELSE Returned(g.value)
    /\ UNCHANGED <<backend, environ, pc, args, results, fetch_count, kept>>

NextGet == GetCall

GetSpec == InitGet /\ [][NextGet]_vars

\* ------------------------------------------------- resuming a call
\* The caller of a rate-limited call keeps the partial result and calls
\* get_multiple again with the same dict, the same request_path and
\* max_fetches, and first_page = int(params["page"]); it does so once.
Resume ==
    /\ pc = "rate_limit_exceeded"
    /\ kept = {}
    /\ kept' = {[first_page |-> args.first_page,
                 partial_result |-> outcome.partial_result]}
    /\ args' = [request_path |-> args.request_path, params |-> params,
                max_fetches |-> args.max_fetches,
                first_page |-> StrToInt(params["page"])]
    /\ params' = DictSet(params, "page", IntToStr(StrToInt(params["page"])))
    /\ results' = FreshResults
    /\ fetch_count' = 0
    /\ pc' = "loop"
    /\ outcome' = NoOutcome
    /\ requests' = <<>>
    /\ UNCHANGED <<backend, environ, get_log>>

NextResume == Call \/ Iterate \/ Resume

ResumeSpec == Init /\ [][NextResume]_vars

\* ================================================================ claims
Terminated == pc \notin {"idle", "loop"}

\* The body the backend holds for the page the i-th request asks for.
AnsweredBody(i) == BodyOf(backend, PageOf(requests[i].params))

\* The i-th fetch returned: it was not answered with the rate-limit status.
\* (A rate-limited fetch is the last one, and ends the call.)
FetchReturned(i) == ~(i = Len(requests) /\ pc = "rate_limit_exceeded")

IsNonEmptyList(j) == j.t = "list" /\ Len(j.v) > 0
IsEmptyList(j) == j.t = "list" /\ Len(j.v) = 0
IsMessageObject(j) ==
    j.t = "dict" /\ "message" \in DOMAIN j.v /\ j.v["message"] # ""

EntriesOf(j) == IF j.t = "list" THEN j.v ELSE <<>>

\* The entries of fetches 1..n, in order.
RECURSIVE EntriesOfFetches(_)
EntriesOfFetches(n) ==
    IF n = 0 THEN <<>>
    ELSE EntriesOfFetches(n - 1) \o EntriesOf(AnsweredBody(n))

\* The entries of the n pages k, k+1, ... of the backend, in order.
RECURSIVE EntriesOfPages(_, _)
EntriesOfPages(k, n) ==
    IF n = 0 THEN <<>>
    ELSE EntriesOfPages(k, n - 1) \o EntriesOf(BodyOf(backend, k + n - 1))

\* From first_page on, the backend holds n non-empty list pages.
NonEmptyListPages(n) ==
    \A i \in 0..(n - 1) : IsNonEmptyList(BodyOf(backend, args.first_page + i))

\* C1: on a backend of P non-empty list pages followed by an empty page, with
\* max_fetches = None and no rate-limited fetch, get_multiple returns exactly
\* the concatenation of the P pages, in order.
C1_ReturnsAllPages ==
    \A P \in 0..MaxFetchCount :
        ( /\ Terminated
          /\ args.max_fetches = {}
          /\ pc # "rate_limit_exceeded"
          /\ NonEmptyListPages(P)
          /\ IsEmptyList(BodyOf(backend, args.first_page + P)) )
        => outcome = Returned(EntriesOfPages(args.first_page, P))

\* C2: when the n-th fetch is rate-limited, get_multiple raises
\* RateLimitExceeded whose partial_result is exactly the entries of fetches
\* 1..n-1, in order (empty when n = 1).
C2_PartialResultOnRateLimit ==
    pc = "rate_limit_exceeded" =>
        /\ Len(requests) >= 1
        /\ outcome = RateLimitExceeded(EntriesOfFetches(Len(requests) - 1))

C2_Witness ==
    /\ pc = "rate_limit_exceeded"
    /\ Len(requests) = 3
    /\ Len(outcome.partial_result) >= 3

\* C3: with max_fetches = m >= 1 and the first m pages from first_page
\* non-empty lists, get_multiple returns exactly the entries of those m pages
\* and performs exactly m fetches.
C3_BudgetTruncates ==
    \A m \in 1..MaxBudget :
        ( /\ Terminated
          /\ args.max_fetches = {m}
          /\ pc # "rate_limit_exceeded"
          /\ NonEmptyListPages(m) )
        => /\ outcome = Returned(EntriesOfPages(args.first_page, m))
           /\ Len(requests) = m
           /\ fetch_count = m

\* C4: when the n-th fetch returns an empty page, the call returns the entries
\* of fetches 1..n-1 unchanged after exactly n fetches; no fetch follows it.
C4_StopsOnEmptyPage ==
    \A i \in DOMAIN requests :
        (IsEmptyList(AnsweredBody(i)) /\ FetchReturned(i))
        => /\ i = Len(requests)
           /\ pc = "no_further_results"
           /\ fetch_count = i
           /\ results = EntriesOfFetches(i - 1)
           /\ outcome = Returned(results)

C4_Witness ==
    /\ pc = "no_further_results"
    /\ Len(requests) = 2
    /\ IsEmptyList(AnsweredBody(2))
    /\ Len(outcome.value) = 2

\* C5: when a fetch returns an object with a non-empty "message", the call
\* fails with a RuntimeError carrying that message, the object is not
\* appended to the results, and no fetch follows; on the first fetch or later.
C5_ServerError ==
    \A i \in DOMAIN requests :
        (IsMessageObject(AnsweredBody(i)) /\ FetchReturned(i))
        => /\ i = Len(requests)
           /\ pc = "server_error"
           /\ outcome.type = "RuntimeError"
           /\ outcome.message =
                "Something went wrong! (" \o AnsweredBody(i).v["message"] \o ")"
           /\ results = EntriesOfFetches(i - 1)
           /\ \A k \in DOMAIN results : results[k] # AnsweredBody(i)

C5_Witness ==
    /\ pc = "server_error"
    /\ Len(requests) = 2
    /\ IsMessageObject(AnsweredBody(2))
    /\ Len(results) = 2

\* C6: started with first_page = k, the i-th fetch sends page k + i - 1 as a
\* decimal string, and after N fetches that let the loop go on params["page"]
\* is k + N.
C6_PageMonotonic ==
    /\ \A i \in DOMAIN requests :
          /\ requests[i].params["page"] = IntToStr(args.first_page + i - 1)
          /\ StrToInt(requests[i].params["page"]) = args.first_page + i - 1
    /\ pc = "loop" =>
          /\ Len(requests) = fetch_count
          /\ StrToInt(params["page"]) = args.first_page + fetch_count

C6_Witness ==
    /\ Len(requests) = 3
    /\ args.first_page = 9
    /\ requests[2].params["page"] = <<"1", "0">>
    /\ requests[3].params["page"] = <<"1", "1">>

\* The outcome type the code produces on each of the three terminal
\* conditions: both `break`s reach `return results`.
OutcomeTypeOf(condition) ==
    CASE condition = "no_further_results" -> "return"
      [] condition = "max_fetches_reached" -> "return"
      [] condition = "rate_limit_exceeded" -> "RateLimitExceeded"

StopConditions ==
    {"no_further_results", "max_fetches_reached", "rate_limit_exceeded"}

\* C7 as stated: each of the three terminal conditions has an outcome type of
\* its own, so the outcome type of a finished call is the type of no other
\* condition.
C7_DistinctOutcomeTypes ==
    pc \in StopConditions =>
        \A c \in StopConditions \ {pc} : outcome.type # OutcomeTypeOf(c)

\* C7, amended: rate limiting alone has an outcome type of its own
\* (RateLimitExceeded); an empty page and the fetch budget both end in a
\* plain return of the accumulated list.
C7_OutcomeTypes ==
    pc \in StopConditions =>
        /\ outcome.type = OutcomeTypeOf(pc)
        /\ (outcome.type = "RateLimitExceeded") = (pc = "rate_limit_exceeded")
        /\ (outcome.type = "return") =
              (pc \in {"no_further_results", "max_fetches_reached"})
        /\ outcome.type = "return" => outcome.value = results

C7_Witness ==
    /\ pc = "max_fetches_reached"
    /\ outcome.type = "return"
    /\ Len(requests) = 2
    /\ IsNonEmptyList(BodyOf(backend, args.first_page + 2))

C9_LoggingNeverFails ==
    \A i \in DOMAIN requests :
        (i = Len(requests) /\ IsNonEmptyList(AnsweredBody(i)) /\ FetchReturned(i))
        => /\ pc \in {"loop", "max_fetches_reached"}
           /\ results = EntriesOfFetches(i)
           /\ StrToInt(params["page"]) = args.first_page + i

IsPrefix(a, b) == Len(a) <= Len(b) /\ SubSeq(b, 1, Len(a)) = a

\* The number of fetches of the running call whose page has been appended:
\* all of them while the loop goes on or after the budget stopped it, all
\* but the last after any other stop.
Appended ==
    IF pc \in {"idle", "loop", "max_fetches_reached"}
    THEN Len(requests) ELSE Len(requests) - 1

\* C11: results is append-only: every step leaves the old results as a
\* prefix of the new, and results always is the in-order concatenation of
\* the pages appended so far (nothing reordered, dropped or duplicated).
C11_AppendOnly ==
    /\ [](results = EntriesOfFetches(Appended))
    /\ [][IsPrefix(results, results')]_vars

C11_Witness ==
    /\ pc = "loop"
    /\ Len(requests) = 2
    /\ Len(results) = 2 * MaxEntries

\* The body answered to the fetch a step has just made.
NewBody == BodyOf(backend, PageOf(requests'[Len(requests')].params))

Fetches == Len(requests') = Len(requests) + 1

\* C12 as stated: params["page"] starts at first_page, goes up by exactly 1
\* with each fetch that does not end in RateLimitExceeded or the server
\* error, and is left as it is by a fetch that does.
C12_PageStepsAsStated ==
    [][ /\ (pc = "idle" /\ pc' = "loop") =>
              params'["page"] = IntToStr(args'.first_page)
        /\ Fetches =>
              IF pc' \in {"rate_limit_exceeded", "server_error"}
              THEN params'["page"] = params["page"]
              ELSE StrToInt(params'["page"]) = StrToInt(params["page"]) + 1
      ]_vars

\* C12, amended: params["page"] starts at first_page and goes up by exactly
\* 1 with each fetch that returns a non-empty page (a truthy value that is no
\* error object), also when the log line's lookup then raises; a fetch that
\* is rate-limited, returns an empty page or returns an error object leaves
\* it as it is.
C12_PageSteps ==
    [][ /\ (pc = "idle" /\ pc' = "loop") =>
              params'["page"] = IntToStr(args'.first_page)
        /\ Fetches =>
              IF /\ pc' # "rate_limit_exceeded"
                 /\ (IsNonEmptyList(NewBody) \/
                       (NewBody.t = "dict" /\ DOMAIN NewBody.v # {}
                          /\ ~IsMessageObject(NewBody)))
              THEN /\ StrToInt(params'["page"]) = StrToInt(params["page"]) + 1
                   /\ params'["page"] = IntToStr(StrToInt(params["page"]) + 1)
              ELSE params'["page"] = params["page"]
      ]_vars

C12_Witness ==
    /\ pc = "no_further_results"
    /\ Len(requests) = 3
    /\ StrToInt(params["page"]) = args.first_page + 2

\* C13: get_multiple never retries: once a fetch has been rate-limited the
\* call issues no further fetch, and no page number is requested twice
\* within a call.
C13_NoRetry ==
    /\ [](\A i, j \in DOMAIN requests :
            i # j => requests[i].params["page"] # requests[j].params["page"])
    /\ [][pc = "rate_limit_exceeded" => ~Fetches]_<<pc, requests>>
    /\ [][(Fetches /\ Len(requests) >= 1) =>
            requests'[Len(requests')].params["page"] # requests[Len(requests)].params["page"]
         ]_vars

C13_Witness ==
    /\ pc = "rate_limit_exceeded"
    /\ Len(requests) = 3
    /\ ~ENABLED Iterate

\* C14: a server error after accumulated pages carries the server's message
\* alone: no field of the failure holds the accumulated entries.
C14_ServerErrorDropsPartial ==
    (pc = "server_error" /\ Len(results) > 0) =>
        /\ DOMAIN outcome = {"type", "message"}
        /\ outcome.type = "RuntimeError"
        /\ outcome.message =
             "Something went wrong! ("
                \o AnsweredBody(Len(requests)).v["message"] \o ")"

C14_Witness ==
    /\ pc = "server_error"
    /\ Len(results) >= 2
    /\ DOMAIN outcome = {"type", "message"}

\* C16: get raises RateLimitExceeded exactly when the status is 429, and
\* then with an empty partial_result; on every other status, 4xx and 5xx
\* included, it returns the decoded body.
C16_RateLimitOnly429 ==
    \A i \in DOMAIN get_log :
        /\ get_log[i].raised = (get_log[i].status = 429)
        /\ get_log[i].raised => get_log[i].value = <<>>
        /\ ~get_log[i].raised =>
              get_log[i].value = BodyOf(backend, PageOf(get_log[i].params))

C16_Witness ==
    /\ Len(get_log) = 2
    /\ get_log[1].status = 500
    /\ ~get_log[1].raised
    /\ IsMessageObject(get_log[1].value)
    /\ get_log[2].status = 429
    /\ get_log[2].raised

\* The token the claim names: BUILDKITE_CI_API_KEY when set and non-empty,
\* otherwise BUILDKITE_TOKEN.
ClaimedToken ==
    IF environ.BUILDKITE_CI_API_KEY \notin {{}, {""}}
    THEN environ.BUILDKITE_CI_API_KEY
    ELSE environ.BUILDKITE_TOKEN

\* C17: a request carries "Authorization: Bearer <token>" exactly when that
\* token is present and non-empty; without it the request is sent all the
\* same, with no such header, and get does not fail for it.
C17_BearerHeader ==
    /\ Len(requests) = Len(get_log)
    /\ \A i \in DOMAIN requests :
          /\ ("Authorization" \in DOMAIN requests[i].headers)
                = (ClaimedToken \notin {{}, {""}})
          /\ \A tok \in ClaimedToken :
                tok # "" => requests[i].headers["Authorization"] = "Bearer " \o tok
          /\ DOMAIN requests[i].headers \subseteq {"Authorization"}
          /\ get_log[i].raised = (get_log[i].status = 429)

C17_Witness ==
    /\ Len(requests) = 2
    /\ environ.BUILDKITE_CI_API_KEY = {""}
    /\ environ.BUILDKITE_TOKEN = {"token"}
    /\ requests[2].headers["Authorization"] = "Bearer token"

Max(a, b) == IF a > b THEN a ELSE b

\* C18: with max_fetches an int m (zero and negative included) a call makes
\* at least 1 and at most max(1, m) fetches, a rate-limited one counted;
\* with m <= 0 it makes exactly one, as with m = 1.
C18_FetchBounds ==
    \A m \in args.max_fetches :
        /\ pc = "loop" => Len(requests) < Max(1, m)
        /\ Terminated =>
              /\ 1 <= Len(requests)
              /\ Len(requests) <= Max(1, m)
              /\ pc = "max_fetches_reached" => Len(requests) = Max(1, m)

C18_Witness ==
    /\ pc = "max_fetches_reached"
    /\ args.max_fetches = {-1}
    /\ Len(requests) = 1
    /\ Len(outcome.value) >= 1

\* C20: the call changes the caller's dict at the key "page" alone, whatever
\* the outcome; and after a return, a RateLimitExceeded or the server error
\* params["page"] is first_page plus the number of pages appended to results.
C20_ParamsFrame ==
    pc # "idle" =>
        /\ DOMAIN params = DOMAIN args.params \cup {"page"}
        /\ \A k \in DOMAIN args.params \ {"page"} : params[k] = args.params[k]
        /\ pc \in {"no_further_results", "max_fetches_reached",
                   "rate_limit_exceeded", "server_error"} =>
              /\ results = EntriesOfFetches(Appended)
              /\ StrToInt(params["page"]) = args.first_page + Appended
              /\ params["page"] = IntToStr(args.first_page + Appended)

C20_Witness ==
    /\ pc = "server_error"
    /\ "branch" \in DOMAIN args.params
    /\ args.params["page"] = <<"7">>
    /\ Len(requests) = 2
    /\ Len(results) >= 1
    /\ params["page"] = <<"1", "0">>

\* C15 as stated: nothing a call writes (accumulated entries, the page
\* parameter) shows in state the caller or another call holds: the caller's
\* dict is as it was passed.
C15_NothingShared ==
    pc # "idle" => params = args.params

\* C15, amended: the results accumulator is the call's own: a call started
\* after another holds the pages of its own fetches alone, and the partial
\* result the caller kept is not touched by it. The params dict is the
\* caller's object: the call writes params["page"] into it, and the caller
\* (and the call it makes next with that dict) sees the page written.
C15_OwnsResultsOnly ==
    /\ results = EntriesOfFetches(Appended)
    /\ pc # "idle" =>
          /\ "page" \in DOMAIN params
          /\ StrToInt(params["page"]) =
                args.first_page + Appended + (IF pc = "lookup_error" THEN 1 ELSE 0)
    /\ \A k \in kept :
          /\ args.first_page >= k.first_page
          /\ k.partial_result =
                EntriesOfPages(k.first_page, args.first_page - k.first_page)

C15_Witness ==
    /\ pc = "max_fetches_reached"
    /\ \E k \in kept : Len(k.partial_result) >= 1
    /\ Len(results) >= 1
    /\ params["page"] # args.params["page"]

\* C19: a call with max_fetches = None is rate-limited with partial result
\* P and leaves params["page"] = p; the call made again from int(p) returns
\* R. Then P followed by R is what the uninterrupted call from the first
\* first_page returns: the pages from there to the first empty one.
C19_ResumeLosesNothing ==
    \A k \in kept :
        (args.max_fetches = {} /\ pc = "no_further_results") =>
            LET n == StrToInt(params["page"]) - k.first_page IN
            /\ n >= 0
            /\ \A i \in 0..(n - 1) :
                  /\ IsNonEmptyList(BodyOf(backend, k.first_page + i))
                  /\ SubscriptError(BodyOf(backend, k.first_page + i)) = ""
            /\ ~IsNonEmptyList(BodyOf(backend, k.first_page + n))
            /\ BodyOf(backend, k.first_page + n).t = "dict" =>
                  DOMAIN BodyOf(backend, k.first_page + n).v = {}
            /\ k.partial_result \o outcome.value =
                  EntriesOfPages(k.first_page, n)

C19_Witness ==
    /\ pc = "no_further_results"
    /\ args.max_fetches = {}
    /\ \E k \in kept :
          /\ Len(k.partial_result) >= 1
          /\ args.first_page = k.first_page + 1
    /\ Len(outcome.value) >= 1

====
